---------------------------- MODULE Spec2Model ----------------------------
(***************************************************************************)
(* Model of the message relay (supabase/functions/chat-with-ai/index.ts),  *)
(* of the persistence store it writes to, and of the client: the sidebar   *)
(* (src/components/ResearchSidebar.tsx), the app (ResearchApp.tsx) and the *)
(* chat interface (ChatInterface, in AuthPage.tsx).  Spec is the relay     *)
(* under arbitrary callers, SpecClient the relay under the requests of the *)
(* chat interface, SpecPure the evaluation of the title expressions and of *)
(* formatDate.                                                             *)
(*                                                                         *)
(* Text is a sequence of one-character strings, so that trim and slice are *)
(* computed as the code computes them.  An error message is a sequence of  *)
(* words, so that String.includes is a contiguous-subsequence test.  An    *)
(* optional JSON value is a sequence of length 0 (undefined) or 1.         *)
(***************************************************************************)
EXTENDS Integers, Sequences, FiniteSets, TLC

(* ------------------------------ bounds --------------------------------- *)
\* relay invocations of one run (they may overlap)
MaxInv == 2
\* relay invocations that run at the same time
MaxActive == 1
\* chat ids the store can hand out
MaxChats == 2
\* loadChatMessages calls that await their continuation at the same time
MaxLoads == 2
\* longest message text a title is computed from
MaxTextLen == 52
\* largest whole number of days between a chat's timestamp and now
MaxDays == 8
\* granularity of the clock, in milliseconds
TickMs == 25000
\* the clock of an invocation stops after this many milliseconds
MaxElapsedMs == 37500

(* ------------------------- program constants --------------------------- *)
\* setTimeout(() => controller.abort(), 25000)
ServerTimeoutMs == 25000
\* .slice(0, 50)
TitleLen == 50
\* 1000 * 60 * 60 * 24
DayMs == 86400000

Invs == 1..MaxInv
ChatIds == 1..MaxChats
\* chatId absent from the request body (undefined is falsy, as is 0)
NoChat == 0
NoUser == "none"
Users == {"u1"}

(* ------------------------------- text ---------------------------------- *)
Text(n, c) == [k \in 1..n |-> c]
Ellipsis == <<".", ".", ".">>
ShortText == <<"h", "i">>
LongText == Text(TitleLen + 1, "a")
OtherText == <<"y", "o">>
ReplyText == <<"o", "k">>
ClientTitle == <<"t">>
\* title absent or empty: both are falsy at the || of the title expression
NoTitle == <<>>

IsSpace(c) == c \in {" ", "\n", "\t"}

RECURSIVE TrimStart(_)
TrimStart(s) ==
  IF s # <<>> /\ IsSpace(Head(s)) THEN TrimStart(Tail(s)) ELSE s

RECURSIVE TrimEnd(_)
TrimEnd(s) ==
  IF s # <<>> /\ IsSpace(s[Len(s)]) THEN TrimEnd(SubSeq(s, 1, Len(s) - 1)) ELSE s

\* String.prototype.trim
Trim(s) == TrimEnd(TrimStart(s))

Min(a, b) == IF a <= b THEN a ELSE b

\* String.prototype.slice(0, n)
Slice0(s, n) == SubSeq(s, 1, Min(n, Len(s)))

\* String.prototype.includes, on word sequences
Includes(msg, pat) ==
  \E k \in 0..(Len(msg) - Len(pat)) : SubSeq(msg, k + 1, k + Len(pat)) = pat

(* ------------------------------ errors --------------------------------- *)
Err(name, message) == [name |-> name, message |-> message]
ErrApiKey == Err("Error", <<"AI/ML", "API", "key", "not", "configured">>)
ErrApi(status) == Err("Error", <<"AI/ML", "API", "error", ":", status>>)
ErrInvalidFormat == Err("Error", <<"Invalid", "AI", "response", "format">>)
ErrEmpty == Err("Error", <<"Empty", "AI", "response">>)
ErrCreateChat == Err("Error", <<"Failed", "to", "create", "chat">>)
ErrSaveUser == Err("Error", <<"Failed", "to", "save", "user", "message">>)
ErrSaveAI == Err("Error", <<"Failed", "to", "save", "AI", "response">>)
\* rejection of fetch when controller.abort() has run
ErrAbort == Err("AbortError", <<"The", "signal", "has", "been", "aborted">>)
\* req.json() / response.json() on a body that is not JSON
ErrSyntax == Err("SyntaxError", <<"Unexpected", "token">>)
\* fetch / response.text() / response.json() on a broken connection
ErrNetwork == Err("TypeError", <<"error", "sending", "request">>)
\* messages[messages.length - 1].content on an empty list, .trim on a non-string
ErrType == Err("TypeError", <<"Cannot", "read", "properties", "of", "undefined">>)

(* ----------------------------- responses ------------------------------- *)
NoResponse ==
  [status |-> 0, fields |-> {}, error |-> <<>>, details |-> <<>>,
   response |-> <<>>, chatId |-> NoChat, text |-> <<>>]

\* new Response(null, { headers: corsHeaders })
PreflightResponse == [NoResponse EXCEPT !.status = 200]

\* new Response('Unauthorized', { status: 401, headers: corsHeaders })
UnauthorizedResponse ==
  [NoResponse EXCEPT !.status = 401, !.fields = {"text"}, !.text = <<"Unauthorized">>]

\* SuccessResponse without the chat id
SuccessResponse_NoChatId(ai, chat) ==
  [NoResponse EXCEPT !.status = 200, !.fields = {"response", "chatId"},
                     !.response = ai]

\* the response of lines 183-191
SuccessResponse(ai, chat) ==
  [NoResponse EXCEPT !.status = 200, !.fields = {"response", "chatId"},
                     !.response = ai, !.chatId = chat]

\* CatchStatus with the provider-error test on the prefix 'AI/ML API' alone
CatchStatus_PrefixMatch(err) ==
  IF err.name = "AbortError" THEN 408
  ELSE IF Includes(err.message, <<"AI/ML", "API">>) THEN 502
  ELSE IF Includes(err.message, <<"Invalid", "AI", "response">>)
          \/ Includes(err.message, <<"Empty", "AI", "response">>) THEN 502
  ELSE 500

CatchStatus(err) ==
  IF err.name = "AbortError" THEN 408
  ELSE IF Includes(err.message, <<"AI/ML", "API", "error">>) THEN 502
  ELSE IF Includes(err.message, <<"Invalid", "AI", "response">>)
          \/ Includes(err.message, <<"Empty", "AI", "response">>) THEN 502
  ELSE 500

CatchMessage(err) ==
  IF err.name = "AbortError" THEN <<"Request", "timeout">>
  ELSE IF Includes(err.message, <<"AI/ML", "API", "error">>)
    THEN <<"AI", "service", "unavailable">>
  ELSE IF Includes(err.message, <<"Invalid", "AI", "response">>)
          \/ Includes(err.message, <<"Empty", "AI", "response">>)
    THEN <<"Invalid", "AI", "response">>
  ELSE <<"Internal", "server", "error">>

\* the catch block of the handler
CatchResponse(err) ==
  [NoResponse EXCEPT !.status = CatchStatus(err), !.fields = {"error", "details"},
                     !.error = CatchMessage(err), !.details = err.message]


(* ------------------------------ requests ------------------------------- *)
Msg(role, content) == [role |-> role, content |-> content]

\* systemPrompt: the instruction of the relay, its content by its first words
SystemPrompt ==
  Msg("system", <<"Y", "o", "u", " ", "a", "r", "e", " ", "a", "n">>)

\* const allMessages = [systemPrompt, ...messages]
AllMessages(msgs) == <<SystemPrompt>> \o msgs

\* the message lists a caller may send
MessageLists ==
  { <<>>,
    <<Msg("user", ShortText)>>,
    <<Msg("user", LongText), Msg("assistant", ReplyText), Msg("user", OtherText)>> }

\* RequestBody; json = FALSE is a body req.json() cannot parse
NoBody == [json |-> FALSE, messages |-> <<>>, chatId |-> NoChat, title |-> NoTitle]
Body(msgs, chat, title) ==
  [json |-> TRUE, messages |-> msgs, chatId |-> chat, title |-> title]
\* the bodies a caller may send: a title comes with the first turn of a chat
Bodies ==
  {NoBody}
  \cup {Body(m, c, NoTitle) : m \in MessageLists, c \in {NoChat} \cup ChatIds}
  \cup {Body(m, NoChat, ClientTitle) : m \in MessageLists}

Methods == {"POST", "OPTIONS"}

(* ----------------------- completion provider --------------------------- *)
\* statuses the provider answers with; response.ok is status 200..299
OkStatus == "200"
ProviderStatuses == {OkStatus, "500"}

StringContent(s) == [isString |-> TRUE, text |-> s]
\* a content that is not a string (an array of content parts)
PartsContent == [isString |-> FALSE, text |-> <<>>]

Choice(message) == [message |-> message]
Payload(choices) == [json |-> TRUE, choices |-> choices]
WithContent(content) == Payload(<< <<Choice(<<[content |-> content]>>)>> >>)

\* what response.json() can yield; an optional value is <<>> or <<v>>
BadJson == [json |-> FALSE, choices |-> <<>>]
NoChoices == Payload(<<>>)
EmptyChoices == Payload(<< <<>> >>)
NoMessage == Payload(<< <<Choice(<<>>)>> >>)
NoContent == WithContent(<<>>)
EmptyContent == WithContent(<<StringContent(<<>>)>>)
BlankContent == WithContent(<<StringContent(<<" ", "\n">>)>>)
GoodContent == WithContent(<<StringContent(ReplyText)>>)
NonStringContent == WithContent(<<PartsContent>>)

Payloads ==
  { BadJson, NoChoices, EmptyChoices, NoMessage, NoContent, EmptyContent,
    BlankContent, GoodContent, NonStringContent }

\* !data.choices || !data.choices[0] || !data.choices[0].message
InvalidFormat(p) ==
  \/ p.choices = <<>>
  \/ p.choices[1] = <<>>
  \/ p.choices[1][1].message = <<>>

\* data.choices[0].message.content
AiContent(p) == p.choices[1][1].message[1].content

\* !aiResponse, for an aiResponse that is undefined or a string
Falsy(c) == c = <<>> \/ (c[1].isString /\ c[1].text = <<>>)

\* ValidationError without the trim of the completion text
ValidationError_NoTrim(p) ==
  IF ~p.json THEN <<ErrSyntax>>
  ELSE IF InvalidFormat(p) THEN <<ErrInvalidFormat>>
  ELSE IF Falsy(AiContent(p)) THEN <<ErrEmpty>>
  ELSE IF ~AiContent(p)[1].isString THEN <<ErrType>>
  ELSE <<>>

\* what the validation of the provider's payload throws: <<>> when it passes
ValidationError(p) ==
  IF ~p.json THEN <<ErrSyntax>>
  ELSE IF InvalidFormat(p) THEN <<ErrInvalidFormat>>
  ELSE IF Falsy(AiContent(p)) THEN <<ErrEmpty>>
  ELSE IF ~AiContent(p)[1].isString THEN <<ErrType>>
  ELSE IF Len(Trim(AiContent(p)[1].text)) = 0 THEN <<ErrEmpty>>
  ELSE <<>>

(* ------------------------------- titles -------------------------------- *)
UndefinedText == <<"u", "n", "d", "e", "f", "i", "n", "e", "d">>
FallbackTitle ==
  <<"N", "e", "w", " ", "R", "e", "s", "e", "a", "r", "c", "h", " ", "C", "h", "a", "t">>

\* title || messages[0]?.content.slice(0, 50) + '...' || 'New Research Chat'
ChatTitle(title, msgs) ==
  LET derived == (IF msgs = <<>> THEN UndefinedText
                  ELSE Slice0(msgs[1].content, TitleLen)) \o Ellipsis
  IN IF title # <<>> THEN title
     ELSE IF derived # <<>> THEN derived
     ELSE FallbackTitle

\* ProposedTitle without the ellipsis marker
ProposedTitle_NoEllipsis(content) == Slice0(content, TitleLen)

\* the title the client proposes for the chat of a turn:
\* content.slice(0, 50) + (content.length > 50 ? '...' : '')
ProposedTitle(content) ==
  Slice0(content, TitleLen) \o (IF Len(content) > TitleLen THEN Ellipsis ELSE <<>>)

(* ------------------------------- dates --------------------------------- *)
Abs(x) == IF x < 0 THEN 0 - x ELSE x

\* Math.ceil(a / b) for a >= 0, b > 0
CeilDiv(a, b) == (a + b - 1) \div b

\* what formatDate renders: a label, the day count it prints, the date it
\* hands to toLocaleDateString
Rendered(label, days, date) == [label |-> label, days |-> days, date |-> date]
NoDate == 0 - 1

\* FormatDate with the test for 'Today' widened to a difference of no days
FormatDate_ZeroIsToday(date, now) ==
  LET diffTime == Abs(now - date)
      diffDays == CeilDiv(diffTime, DayMs)
  IN IF diffDays <= 1 THEN Rendered("Today", 0, NoDate)
     ELSE IF diffDays = 2 THEN Rendered("Yesterday", 0, NoDate)
     ELSE IF diffDays <= 7 THEN Rendered("days ago", diffDays, NoDate)
     ELSE Rendered("toLocaleDateString", 0, date)

\* formatDate(dateString), evaluated at time now; times are in milliseconds
FormatDate(date, now) ==
  LET diffTime == Abs(now - date)
      diffDays == CeilDiv(diffTime, DayMs)
  IN IF diffDays = 1 THEN Rendered("Today", 0, NoDate)
     ELSE IF diffDays = 2 THEN Rendered("Yesterday", 0, NoDate)
     ELSE IF diffDays <= 7 THEN Rendered("days ago", diffDays, NoDate)
     ELSE Rendered("toLocaleDateString", 0, date)

(* -------------------- inputs of the pure functions --------------------- *)
Letters == <<"a", "b", "c", "d", "e", "f", "g", "h", "i", "j">>
\* a text of n characters whose neighbours differ, starting after letter off
Varied(n, off) == [k \in 1..n |-> Letters[((k + off) % 10) + 1]]

\* the first message of a list, and the newest message of a longer list
FirstTexts == {Varied(n, 0) : n \in 0..MaxTextLen}
NewestTexts == {Varied(2, 3), Varied(MaxTextLen, 5)}

TitleLists ==
  {<<>>}
  \cup {<<Msg("user", t)>> : t \in FirstTexts}
  \cup {<<Msg("user", t), Msg("assistant", ReplyText), Msg("user", n)>> :
          t \in FirstTexts, n \in NewestTexts}

\* the evaluation of a pure function: fn names it, stage is "input",
\* "proposed" (the client has computed the title it sends) or "done";
\* client, msgs, title: the turn a title is computed for, whether the client
\* sends it, and the title in the request; date, now: the arguments of
\* formatDate; text, rendered: the results
NoEval ==
  [fn |-> "none", stage |-> "done", client |-> FALSE, msgs |-> <<>>,
   title |-> NoTitle, date |-> 0, now |-> 0, text |-> <<>>,
   rendered |-> Rendered("", 0, NoDate)]

TitleEvals ==
  {[NoEval EXCEPT !.fn = "title", !.stage = "input", !.client = c, !.msgs = m] :
     c \in BOOLEAN, m \in TitleLists}

\* the time formatDate runs at, and the distances of a timestamp from it
NowMs == (MaxDays + 1) * DayMs
DateOffsets == {q * DayMs + r : q \in 0..MaxDays, r \in {0, 1, DayMs - 1}}
DateEvals ==
  {[NoEval EXCEPT !.fn = "formatDate", !.stage = "input", !.now = NowMs,
                  !.date = NowMs + sign * d] : d \in DateOffsets, sign \in {0 - 1, 1}}

(* ------------------------------- state --------------------------------- *)
VARIABLES
  aimlApiKey,      \* Deno.env.get('AIML_API_KEY') is set
  chats,           \* store: rows of table chats
  messages,        \* store: rows of table messages, in creation order
  nextChatId,      \* store: the next chat id it hands out
  relay,           \* relay: the state of each invocation of the handler
  sidebarChats,    \* sidebar: chats
  selectedChatId,  \* app: selectedChatId
  chatMessages,    \* app: chatMessages
  pendingDeletes,  \* sidebar: the deleteChat calls that await their continuation
  transcript,      \* chat interface: messages
  isLoading,       \* chat interface: isLoading
  submit,          \* chat interface: the handleSubmit call that awaits its reply
  submitToast,     \* chat interface: the description of the error toast shown last
  calls,           \* the requests functions.invoke has sent, by invocation
  loads,           \* app: the loadChatMessages calls that await their continuation
  pure             \* the pure function under evaluation: its input and its result

storeVars == <<chats, messages, nextChatId>>
chatVars == <<transcript, isLoading, submit, submitToast, calls>>
clientVars ==
  <<sidebarChats, selectedChatId, chatMessages, pendingDeletes, loads, chatVars>>
vars == <<aimlApiKey, storeVars, relay, clientVars, pure>>

\* an invocation before its request arrives.  pc: where the handler stands;
\* method: req.method;
\* user, body, aiResponse, currentChatId: the handler's locals; timer: the
\* 25 s timer ("off", "armed", "fired", "cleared"); elapsed: milliseconds
\* since the timer was armed; fetchStatus: response.status; storeState: the
\* store call awaited ("none", "sent", "ok", "error"); storeId: the id it
\* returned; response: the Response returned; providerCalls: requests sent to
\* the provider; inserted: the message rows the invocation created, in order;
\* createdChat: the chat row it created; prompt: the messages of the request
\* to the provider
Idle ==
  [pc |-> "idle", method |-> "", user |-> NoUser, body |-> NoBody, timer |-> "off",
   elapsed |-> 0, fetchStatus |-> "", aiResponse |-> <<>>,
   currentChatId |-> NoChat, storeState |-> "none", storeId |-> NoChat,
   response |-> NoResponse, providerCalls |-> 0, inserted |-> <<>>,
   createdChat |-> NoChat, prompt |-> <<>>]

\* no handleSubmit call awaits a reply.  inv: the invocation its request
\* starts; chatId: the chatId of its closure; before: the transcript when it
\* was called
NoSubmit == [inv |-> 0, chatId |-> NoChat, before |-> <<>>]
NoToast == ""

InitProgram ==
  /\ aimlApiKey \in BOOLEAN
  /\ chats = {}
  /\ messages = <<>>
  /\ nextChatId = 1
  /\ relay = [i \in Invs |-> Idle]
  /\ sidebarChats = <<>>
  /\ selectedChatId = NoChat
  /\ chatMessages = <<>>
  /\ pendingDeletes = {}
  /\ transcript = <<>>
  /\ isLoading = FALSE
  /\ submit = NoSubmit
  /\ submitToast = NoToast
  /\ calls = [i \in Invs |-> <<>>]
  /\ loads = {}

Init == InitProgram /\ pure = NoEval

(* ---------------------------- environment ----------------------------- *)
\* the operator sets or removes the secret AIML_API_KEY between invocations
SetSecret(configured) ==
  /\ aimlApiKey # configured
  /\ aimlApiKey' = configured
  /\ UNCHANGED <<storeVars, relay, clientVars, pure>>

(* ------------------------------- relay --------------------------------- *)
Done(i) == relay[i].pc = "done"
Running(i) == relay[i].pc \notin {"idle", "done"}
Active == {i \in Invs : Running(i)}

\* the invocation in state r returns resp: its locals are gone
Return(r, resp) ==
  [r EXCEPT !.pc = "done", !.response = resp, !.body = NoBody,
            !.fetchStatus = "", !.aiResponse = <<>>, !.currentChatId = NoChat,
            !.storeState = "none", !.storeId = NoChat, !.prompt = <<>>]

\* an error reaches the catch block
Throw(r, err) == Return(r, CatchResponse(err))

\* clearTimeout(timeoutId)
ClearTimeout(t) == IF t = "armed" THEN "cleared" ELSE t

\* serve(async (req) => ...): a request arrives; the timer is armed
Receive(i, method) ==
  /\ relay[i].pc = "idle"
  /\ \A j \in Invs : j < i => relay[j].pc # "idle"
  /\ Cardinality(Active) < MaxActive
  /\ relay' = [relay EXCEPT ![i] =
       IF method = "OPTIONS"
         THEN Return([@ EXCEPT !.method = method], PreflightResponse)
         ELSE [@ EXCEPT !.method = method, !.pc = "getUser", !.timer = "armed"]]
  /\ UNCHANGED <<aimlApiKey, storeVars, clientVars, pure>>

\* Unauthenticated with the check of the user left out
Unauthenticated_Never(u) == FALSE

\* !user
Unauthenticated(u) == u = NoUser

\* await supabaseClient.auth.getUser() settles with u
GetUser(i, u) ==
  /\ relay[i].pc = "getUser"
  /\ relay' = [relay EXCEPT ![i] =
       IF Unauthenticated(u)
         THEN Return([@ EXCEPT !.user = u, !.timer = ClearTimeout(@)],
                     UnauthorizedResponse)
         ELSE [@ EXCEPT !.user = u, !.pc = "parseBody"]]
  /\ UNCHANGED <<aimlApiKey, storeVars, clientVars, pure>>

\* !aimlApiKey
KeyMissing(key) == ~key

\* await req.json() settles with b; the key check; fetch is called
ParseBody(i, b) ==
  /\ relay[i].pc = "parseBody"
  /\ relay' = [relay EXCEPT ![i] =
       IF ~b.json THEN Throw(@, ErrSyntax)
       ELSE IF KeyMissing(aimlApiKey)
         THEN Throw([@ EXCEPT !.timer = ClearTimeout(@)], ErrApiKey)
       \* fetch with a signal that is already aborted sends nothing
       ELSE IF @.timer = "fired" THEN Throw(@, ErrAbort)
       ELSE [@ EXCEPT !.body = b, !.prompt = AllMessages(b.messages),
                      !.providerCalls = @ + 1, !.pc = "fetch"]]
  /\ UNCHANGED <<aimlApiKey, storeVars, clientVars, pure>>

\* the clock of an invocation runs while its timer is armed and while the
\* exchange with the provider lasts
Waiting(r) == r.timer = "armed" \/ r.pc \in {"errorText", "readBody"}

\* time passes; an armed timer fires at its deadline, never later
Tick(i) ==
  /\ Running(i)
  /\ Waiting(relay[i])
  /\ IF relay[i].timer = "armed"
       THEN /\ relay[i].elapsed < ServerTimeoutMs
            /\ relay' = [relay EXCEPT ![i].elapsed = Min(@ + TickMs, ServerTimeoutMs)]
       ELSE /\ relay[i].elapsed < MaxElapsedMs
            /\ relay' = [relay EXCEPT ![i].elapsed = @ + TickMs]
  /\ UNCHANGED <<aimlApiKey, storeVars, clientVars, pure>>

\* () => controller.abort(); a fetch in flight rejects with AbortError
TimerFire(i) ==
  /\ Running(i)
  /\ relay[i].timer = "armed"
  /\ relay[i].elapsed >= ServerTimeoutMs
  /\ relay' = [relay EXCEPT ![i] =
       IF @.pc = "fetch"
         THEN Throw([@ EXCEPT !.timer = "fired"], ErrAbort)
         ELSE [@ EXCEPT !.timer = "fired"]]
  /\ UNCHANGED <<aimlApiKey, storeVars, clientVars, pure>>

\* the timer once fetch has settled with the response: clearTimeout(timeoutId)
TimerAfterHeaders(t) == ClearTimeout(t)

\* await fetch(...) settles with the response headers
FetchHeaders(i, status) ==
  /\ relay[i].pc = "fetch"
  /\ relay' = [relay EXCEPT ![i] =
       [@ EXCEPT !.timer = TimerAfterHeaders(@), !.fetchStatus = status,
                 !.pc = IF status = OkStatus THEN "readBody" ELSE "errorText"]]
  /\ UNCHANGED <<aimlApiKey, storeVars, clientVars, pure>>

\* await fetch(...) rejects: the connection failed
FetchFail(i) ==
  /\ relay[i].pc = "fetch"
  /\ relay' = [relay EXCEPT ![i] = Throw(@, ErrNetwork)]
  /\ UNCHANGED <<aimlApiKey, storeVars, clientVars, pure>>

\* if (!response.ok): await response.text() settles
ErrorText(i, readOk) ==
  /\ relay[i].pc = "errorText"
  /\ relay' = [relay EXCEPT ![i] =
       Throw(@, IF readOk THEN ErrApi(@.fetchStatus) ELSE ErrNetwork)]
  /\ UNCHANGED <<aimlApiKey, storeVars, clientVars, pure>>

\* messages[messages.length - 1].content throws on an empty list
NoLastMessage(msgs) == msgs = <<>>

\* the chat is resolved to chat: the insert of the user message is issued
SaveUserMessage(r, chat) ==
  IF NoLastMessage(r.body.messages)
    THEN Throw(r, ErrType)
    ELSE [r EXCEPT !.currentChatId = chat, !.pc = "insertUser", !.storeState = "sent"]

\* await response.json() settles with p; validation; chat resolution
ReadBody(i, p) ==
  /\ relay[i].pc = "readBody"
  /\ relay' = [relay EXCEPT ![i] =
       IF ValidationError(p) # <<>> THEN Throw(@, ValidationError(p)[1])
       ELSE IF @.body.chatId = NoChat
         THEN [@ EXCEPT !.aiResponse = AiContent(p)[1].text,
                        !.pc = "insertChat", !.storeState = "sent"]
         ELSE SaveUserMessage([@ EXCEPT !.aiResponse = AiContent(p)[1].text],
                              @.body.chatId)]
  /\ UNCHANGED <<aimlApiKey, storeVars, clientVars, pure>>

\* if (chatError)
ChatInsertFailed(st) == st = "error"

\* await ...from('chats').insert(...).select().single() settles
InsertChatDone(i) ==
  /\ relay[i].pc = "insertChat"
  /\ relay[i].storeState \in {"ok", "error"}
  /\ relay' = [relay EXCEPT ![i] =
       IF ChatInsertFailed(@.storeState)
         THEN Throw(@, ErrCreateChat)
         ELSE SaveUserMessage(@, @.storeId)]
  /\ UNCHANGED <<aimlApiKey, storeVars, clientVars, pure>>

\* UserInsertFailed with the error of the insert ignored
UserInsertFailed_Ignored(st) == FALSE

\* if (userMessageError)
UserInsertFailed(st) == st = "error"

\* await ...from('messages').insert({ role: 'user' }) settles
InsertUserDone(i) ==
  /\ relay[i].pc = "insertUser"
  /\ relay[i].storeState \in {"ok", "error"}
  /\ relay' = [relay EXCEPT ![i] =
       IF UserInsertFailed(@.storeState)
         THEN Throw(@, ErrSaveUser)
         ELSE [@ EXCEPT !.pc = "insertAssistant", !.storeState = "sent"]]
  /\ UNCHANGED <<aimlApiKey, storeVars, clientVars, pure>>

\* AiInsertFailed with the error of the insert ignored
AiInsertFailed_Ignored(st) == FALSE

\* if (aiMessageError)
AiInsertFailed(st) == st = "error"

\* await ...from('messages').insert({ role: 'assistant' }) settles; the reply
InsertAssistantDone(i) ==
  /\ relay[i].pc = "insertAssistant"
  /\ relay[i].storeState \in {"ok", "error"}
  /\ relay' = [relay EXCEPT ![i] =
       IF AiInsertFailed(@.storeState)
         THEN Throw(@, ErrSaveAI)
         ELSE Return(@, SuccessResponse(@.aiResponse, @.currentChatId))]
  /\ UNCHANGED <<aimlApiKey, storeVars, clientVars, pure>>

(* ------------------------------- store --------------------------------- *)
ChatRow(id, owner, title) == [id |-> id, user_id |-> owner, title |-> title]
MessageRow(chat, role, content, inv) ==
  [chat_id |-> chat, role |-> role, content |-> content, inv |-> inv]

ChatExists(chat) == \E c \in chats : c.id = chat

\* messages.chat_id is a foreign key on chats, and row-level access control
\* admits the write only under a chat the writer owns
MessageInsertAllowed(chat, owner) == \E c \in chats : c.id = chat /\ c.user_id = owner

\* the rows of table messages once chat is deleted: its messages go with it
MessagesAfterDelete(chat) == SelectSeq(messages, LAMBDA m : m.chat_id # chat)

\* UserContent with the first element of the list taken
UserContent_First(msgs) == msgs[1].content

\* the content of the user message: messages[messages.length - 1].content
UserContent(msgs) == msgs[Len(msgs)].content

\* the content of the assistant message: aiResponse
AssistantContent(ai) == ai

\* the row of table messages the invocation in state r inserts
RowToInsert(r, i) ==
  IF r.pc = "insertUser"
    THEN MessageRow(r.currentChatId, "user", UserContent(r.body.messages), i)
    ELSE MessageRow(r.currentChatId, "assistant", AssistantContent(r.aiResponse), i)

\* the store executes the insert the invocation is waiting for; ok = FALSE is
\* a write the store refuses or that does not reach it
StoreInsert(i, ok) ==
  /\ relay[i].pc \in {"insertChat", "insertUser", "insertAssistant"}
  /\ relay[i].storeState = "sent"
  /\ IF ~ok
       THEN /\ relay' = [relay EXCEPT ![i].storeState = "error"]
            /\ UNCHANGED storeVars
     ELSE IF relay[i].pc = "insertChat"
       THEN /\ nextChatId <= MaxChats
            /\ chats' = chats \cup
                 {ChatRow(nextChatId, relay[i].user,
                          ChatTitle(relay[i].body.title, relay[i].body.messages))}
            /\ nextChatId' = nextChatId + 1
            /\ relay' = [relay EXCEPT ![i] =
                 [@ EXCEPT !.storeState = "ok", !.storeId = nextChatId,
                           !.createdChat = nextChatId]]
            /\ UNCHANGED messages
     ELSE /\ MessageInsertAllowed(relay[i].currentChatId, relay[i].user)
          /\ messages' = Append(messages, RowToInsert(relay[i], i))
          /\ relay' = [relay EXCEPT ![i] =
               [@ EXCEPT !.storeState = "ok",
                         !.inserted = Append(@, [role |-> RowToInsert(relay[i], i).role,
                                                 chat_id |-> relay[i].currentChatId])]]
          /\ UNCHANGED <<chats, nextChatId>>
  /\ UNCHANGED <<aimlApiKey, clientVars, pure>>

(* ------------------------------ sidebar -------------------------------- *)
RECURSIVE Descending(_)
Descending(S) ==
  IF S = {} THEN <<>>
  ELSE LET m == CHOOSE x \in S : \A y \in S : y <= x
       IN <<m>> \o Descending(S \ {m})

Listed(chat) == \E k \in 1..Len(sidebarChats) : sidebarChats[k] = chat

\* the page is loaded: useEffect(() => { fetchChats(); ... }, []); chats are
\* ordered by updated_at descending, which is the order of their creation
Mount(ok) ==
  /\ sidebarChats' = IF ok THEN Descending({c.id : c \in chats}) ELSE <<>>
  /\ selectedChatId' = NoChat
  /\ chatMessages' = <<>>
  /\ pendingDeletes' = {}
  /\ transcript' = <<>>
  /\ isLoading' = FALSE
  /\ submit' = NoSubmit
  /\ submitToast' = NoToast
  /\ loads' = {}
  /\ UNCHANGED <<aimlApiKey, storeVars, relay, calls, pure>>

\* a deleteChat call: id is its argument, selected the selectedChatId of the
\* render whose handler was clicked (the closure keeps it)
Deletion(chat, selected) == [id |-> chat, selected |-> selected]

\* deleteChat(chatId): the store executes the delete.  A delete that fails
\* (ok = FALSE) changes no state: its continuation only shows a toast
DeleteChat(chat, ok) ==
  /\ Listed(chat)
  /\ \A d \in pendingDeletes : d.id # chat
  /\ IF ok
       THEN /\ chats' = {c \in chats : c.id # chat}
            /\ messages' = MessagesAfterDelete(chat)
            /\ pendingDeletes' = pendingDeletes \cup {Deletion(chat, selectedChatId)}
       ELSE UNCHANGED <<chats, messages, pendingDeletes>>
  /\ UNCHANGED <<aimlApiKey, nextChatId, relay, sidebarChats, selectedChatId,
                 chatMessages, loads, chatVars, pure>>

\* DeletedWasOpen with the call of onNewChat left out
DeletedWasOpen_Never(d) == FALSE

\* if (selectedChatId === chatId)
DeletedWasOpen(d) == d.selected = d.id

\* deleteChat(chatId): the await settles without error; setChats, onNewChat
DeleteChatDone(d) ==
  /\ d \in pendingDeletes
  /\ pendingDeletes' = pendingDeletes \ {d}
  /\ sidebarChats' = SelectSeq(sidebarChats, LAMBDA c : c # d.id)
  /\ IF DeletedWasOpen(d)
       \* onNewChat(): handleNewChat; the chat interface takes over the new
       \* chatMessages (useEffect on initialMessages)
       THEN /\ selectedChatId' = NoChat
            /\ chatMessages' = <<>>
            /\ transcript' = <<>>
       ELSE UNCHANGED <<selectedChatId, chatMessages, transcript>>
  /\ UNCHANGED <<aimlApiKey, storeVars, relay, loads, isLoading, submit,
                 submitToast, calls, pure>>

(* --------------------------------- app --------------------------------- *)
\* a loadChatMessages call: state is "sent", "ok" or "error"; rows is the
\* data the query returned
Load(chat, state, rows) == [chat |-> chat, state |-> state, rows |-> rows]

\* the rows of a chat as the app maps them, in the order of their creation
LoadedMessages(chat) ==
  LET rows == SelectSeq(messages, LAMBDA m : m.chat_id = chat)
  IN [k \in 1..Len(rows) |-> Msg(rows[k].role, rows[k].content)]

\* handleChatSelect(chatId): setSelectedChatId; loadChatMessages is called
HandleChatSelect(chat) ==
  /\ Listed(chat)
  /\ Cardinality(loads) < MaxLoads
  /\ selectedChatId' = chat
  /\ loads' = loads \cup {Load(chat, "sent", <<>>)}
  /\ UNCHANGED <<aimlApiKey, storeVars, relay, sidebarChats, chatMessages,
                 pendingDeletes, chatVars, pure>>

\* the store executes the query of loadChatMessages
LoadQuery(l, ok) ==
  /\ l \in loads /\ l.state = "sent"
  /\ loads' = (loads \ {l}) \cup
       {IF ok THEN Load(l.chat, "ok", LoadedMessages(l.chat))
              ELSE Load(l.chat, "error", <<>>)}
  /\ UNCHANGED <<aimlApiKey, storeVars, relay, sidebarChats, selectedChatId,
                 chatMessages, pendingDeletes, chatVars, pure>>

\* loadChatMessages: the await settles; setChatMessages, and the chat
\* interface takes over the new chatMessages (useEffect on initialMessages)
LoadDone(l) ==
  /\ l \in loads /\ l.state \in {"ok", "error"}
  /\ loads' = loads \ {l}
  /\ IF l.state = "ok"
       THEN chatMessages' = l.rows /\ transcript' = l.rows
       ELSE UNCHANGED <<chatMessages, transcript>>
  /\ UNCHANGED <<aimlApiKey, storeVars, relay, sidebarChats, selectedChatId,
                 pendingDeletes, isLoading, submit, submitToast, calls, pure>>

\* handleNewChat(), from the buttons of the sidebar
HandleNewChat ==
  /\ selectedChatId' = NoChat
  /\ chatMessages' = <<>>
  /\ transcript' = <<>>
  /\ UNCHANGED <<aimlApiKey, storeVars, relay, sidebarChats, pendingDeletes,
                 loads, isLoading, submit, submitToast, calls, pure>>

(* ---------------------------- chat interface --------------------------- *)
\* the content of turn i: the texts of different turns differ
TurnText(i) == Varied(2, i)

ToastTimeout == "Request timed out. Please check your connection and try again."
ToastInvalid == "Received invalid response from AI service. Please try again."
ToastFailed == "Failed to send message. Please try again."

\* prev.slice(0, -1)
DropLast(t) == SubSeq(t, 1, Len(t) - 1)

\* what the input field may hold when turn i is submitted: nothing, white
\* space only, the text of the turn, and that text with white space around it
Inputs(i) ==
  {<<>>, <<" ", "\n">>, TurnText(i), <<" ">> \o TurnText(i) \o <<"\n">>}

\* handleSubmit(): content = input.trim(); if (!content || isLoading) return;
\* the optimistic append; functions.invoke sends the request that starts
\* invocation i
HandleSubmit(input, i) ==
  LET content == Trim(input) IN
  /\ Len(content) > 0
  /\ ~isLoading
  /\ calls[i] = <<>>
  /\ \A j \in Invs : j < i => calls[j] # <<>>
  /\ transcript' = Append(transcript, Msg("user", content))
  /\ isLoading' = TRUE
  /\ calls' = [calls EXCEPT ![i] =
       <<Body(Append(transcript, Msg("user", content)), selectedChatId,
              ProposedTitle(content))>>]
  /\ submit' = [inv |-> i, chatId |-> selectedChatId, before |-> transcript]
  /\ UNCHANGED <<aimlApiKey, storeVars, relay, sidebarChats, selectedChatId,
                 chatMessages, pendingDeletes, loads, submitToast, pure>>

\* SubmitFailed with the call left awaited: it may fail once more
SubmitFailed_StillAwaited(description) ==
  /\ transcript' = DropLast(transcript)
  /\ submitToast' = description
  /\ isLoading' = FALSE
  /\ submit' = submit
  /\ UNCHANGED <<aimlApiKey, storeVars, relay, sidebarChats, selectedChatId,
                 chatMessages, pendingDeletes, loads, calls, pure>>

\* the catch and finally blocks of handleSubmit
SubmitFailed(description) ==
  /\ transcript' = DropLast(transcript)
  /\ submitToast' = description
  /\ isLoading' = FALSE
  /\ submit' = NoSubmit
  /\ UNCHANGED <<aimlApiKey, storeVars, relay, sidebarChats, selectedChatId,
                 chatMessages, pendingDeletes, loads, calls, pure>>

\* Promise.race settles with the reply of the relay
SubmitSettled ==
  /\ submit # NoSubmit
  /\ Done(submit.inv)
  /\ LET r == relay[submit.inv].response
     IN \* a status outside 200..299: { data: null, error }; if (error) throw error
        IF r.status # 200 THEN SubmitFailed(ToastFailed)
        \* if (!data || !data.response)
        ELSE IF r.response = <<>> THEN SubmitFailed(ToastInvalid)
        ELSE /\ transcript' = Append(transcript, Msg("assistant", r.response))
             \* if (!chatId && data.chatId) onNewChat(...): handleNewChatCreated
             /\ selectedChatId' =
                  IF submit.chatId = NoChat /\ r.chatId # NoChat
                    THEN r.chatId ELSE selectedChatId
             /\ isLoading' = FALSE
             /\ submit' = NoSubmit
             /\ UNCHANGED <<aimlApiKey, storeVars, relay, sidebarChats,
                            chatMessages, pendingDeletes, loads, submitToast,
                            calls, pure>>

\* Promise.race settles with the rejection of the 30 s timer.  The timer runs
\* at the client from the submit on; the request and its reply travel for an
\* unbounded time, so the relay may be at any step when it fires
SubmitTimeout ==
  /\ submit # NoSubmit
  /\ SubmitFailed(ToastTimeout)

\* functions.invoke settles with { error }: the request or its reply was lost
SubmitTransportError ==
  /\ submit # NoSubmit
  /\ SubmitFailed(ToastFailed)

(* ---------------------------- specification ---------------------------- *)
Next ==
  \/ \E k \in BOOLEAN : SetSecret(k)
  \/ \E i \in Invs, m \in Methods : Receive(i, m)
  \/ \E i \in Invs, u \in Users \cup {NoUser} : GetUser(i, u)
  \/ \E i \in Invs, b \in Bodies : ParseBody(i, b)
  \/ \E i \in Invs : Tick(i)
  \/ \E i \in Invs : TimerFire(i)
  \/ \E i \in Invs, s \in ProviderStatuses : FetchHeaders(i, s)
  \/ \E i \in Invs : FetchFail(i)
  \/ \E i \in Invs, r \in BOOLEAN : ErrorText(i, r)
  \/ \E i \in Invs, p \in Payloads : ReadBody(i, p)
  \/ \E i \in Invs, ok \in BOOLEAN : StoreInsert(i, ok)
  \/ \E i \in Invs : InsertChatDone(i)
  \/ \E i \in Invs : InsertUserDone(i)
  \/ \E i \in Invs : InsertAssistantDone(i)
  \/ \E ok \in BOOLEAN : Mount(ok)
  \/ \E c \in ChatIds, ok \in BOOLEAN : DeleteChat(c, ok)
  \/ \E d \in pendingDeletes : DeleteChatDone(d)

Spec == Init /\ [][Next]_vars

(* --------------- specification of client and relay together ------------ *)
\* the requests come from the chat interface of a signed-in user, the key of
\* the provider is configured, and the provider answers with a failure
\* status, an empty completion or a completion
InitClient == InitProgram /\ aimlApiKey /\ pure = NoEval

ClientPayloads == {EmptyContent, GoodContent}

NextClient ==
  \/ \E i \in Invs : \E input \in Inputs(i) : HandleSubmit(input, i)
  \/ SubmitSettled
  \/ SubmitTimeout
  \/ SubmitTransportError
  \/ \E c \in ChatIds : HandleChatSelect(c)
  \/ \E l \in loads, ok \in BOOLEAN : LoadQuery(l, ok)
  \/ \E l \in loads : LoadDone(l)
  \/ HandleNewChat
  \/ \E ok \in BOOLEAN : Mount(ok)
  \/ \E c \in ChatIds, ok \in BOOLEAN : DeleteChat(c, ok)
  \/ \E d \in pendingDeletes : DeleteChatDone(d)
  \/ \E i \in Invs : calls[i] # <<>> /\ Receive(i, "POST")
  \/ \E i \in Invs, u \in Users : GetUser(i, u)
  \/ \E i \in Invs : calls[i] # <<>> /\ ParseBody(i, calls[i][1])
  \/ \E i \in Invs, s \in ProviderStatuses : FetchHeaders(i, s)
  \/ \E i \in Invs : ErrorText(i, TRUE)
  \/ \E i \in Invs, p \in ClientPayloads : ReadBody(i, p)
  \/ \E i \in Invs, ok \in BOOLEAN : StoreInsert(i, ok)
  \/ \E i \in Invs : InsertChatDone(i)
  \/ \E i \in Invs : InsertUserDone(i)
  \/ \E i \in Invs : InsertAssistantDone(i)

SpecClient == InitClient /\ [][NextClient]_vars

(* ----------------- specification of the pure functions ----------------- *)
\* handleSubmit computes the title it sends with the turn
EvalProposedTitle ==
  /\ pure.fn = "title" /\ pure.stage = "input"
  /\ pure.client /\ pure.msgs # <<>>
  /\ pure' = [pure EXCEPT !.stage = "proposed",
                          !.title = ProposedTitle(UserContent(pure.msgs))]
  /\ UNCHANGED <<aimlApiKey, storeVars, relay, clientVars>>

\* the relay computes the title of the chat it creates
EvalChatTitle ==
  /\ pure.fn = "title"
  /\ pure.stage = (IF pure.client THEN "proposed" ELSE "input")
  /\ pure' = [pure EXCEPT !.stage = "done",
                          !.text = ChatTitle(pure.title, pure.msgs)]
  /\ UNCHANGED <<aimlApiKey, storeVars, relay, clientVars>>

\* the sidebar renders the timestamp of a chat
EvalFormatDate ==
  /\ pure.fn = "formatDate" /\ pure.stage = "input"
  /\ pure' = [pure EXCEPT !.stage = "done",
                          !.rendered = FormatDate(pure.date, pure.now)]
  /\ UNCHANGED <<aimlApiKey, storeVars, relay, clientVars>>

InitPure == InitProgram /\ pure \in TitleEvals \cup DateEvals

NextPure ==
  \/ EvalProposedTitle
  \/ EvalChatTitle
  \/ EvalFormatDate

SpecPure == InitPure /\ [][NextPure]_vars

(* ------------------------------- claims -------------------------------- *)
\* the invocation answered a turn (not a CORS preflight)
Answered(i) == Done(i) /\ relay[i].method = "POST"
Succeeded(i) == Answered(i) /\ relay[i].response.status = 200
Failed(i) == Answered(i) /\ relay[i].response.status # 200
\* the rows of table messages that invocation i created, in creation order
RowsOf(i) == SelectSeq(messages, LAMBDA m : m.inv = i)
Roles(rows) == [k \in 1..Len(rows) |-> rows[k].role]
ChatsOf(rows) == {rows[k].chat_id : k \in 1..Len(rows)}

\* C1: an invocation that returns a success response has created exactly two
\* message rows, first the 'user' row and then the 'assistant' row, both under
\* the chat id it returns; they are the rows of that invocation in the store
\* for as long as the chat has not been deleted.
C1_SuccessWritesPair ==
  \A i \in Invs :
    Succeeded(i) =>
      /\ Roles(relay[i].inserted) = <<"user", "assistant">>
      /\ ChatsOf(relay[i].inserted) = {relay[i].response.chatId}
      /\ ChatExists(relay[i].response.chatId) =>
           /\ Roles(RowsOf(i)) = <<"user", "assistant">>
           /\ ChatsOf(RowsOf(i)) = {relay[i].response.chatId}

C1_Witness ==
  \E i \in Invs :
    /\ Succeeded(i)
    /\ ChatExists(relay[i].response.chatId)
    /\ Len(RowsOf(i)) = 2

\* C2 (as claimed): no invocation, successful or failed, leaves a 'user'
\* message row of its turn in the store without the matching 'assistant' row.
C2_NoPartialCommit ==
  \A i \in Invs :
    Done(i) =>
      ("user" \in {RowsOf(i)[k].role : k \in 1..Len(RowsOf(i))}
         => "assistant" \in {RowsOf(i)[k].role : k \in 1..Len(RowsOf(i))})

\* C3: when the identity lookup yields no user, the invocation answers 401
\* and has sent nothing to the provider and written no chat or message row.
C3_UnauthorizedNoEffect ==
  \A i \in Invs :
    (relay[i].method = "POST" /\ relay[i].user = NoUser) =>
      /\ relay[i].providerCalls = 0
      /\ relay[i].inserted = <<>>
      /\ relay[i].createdChat = NoChat
      /\ RowsOf(i) = <<>>
      /\ Done(i) => relay[i].response.status = 401

C3_Witness ==
  \E i \in Invs :
    /\ Answered(i)
    /\ relay[i].user = NoUser
    /\ relay[i].response = UnauthorizedResponse

\* C4 (as claimed): an invocation whose exchange with the provider lasted
\* beyond the 25 s of the server timer answers 408 'Request timeout' and has
\* created no message row, wherever in the exchange the time was spent.
C4_TimeoutWhereverDelayed ==
  \A i \in Invs :
    (Answered(i) /\ relay[i].providerCalls > 0
       /\ relay[i].elapsed > ServerTimeoutMs) =>
      /\ relay[i].response.status = 408
      /\ relay[i].response.error = <<"Request", "timeout">>
      /\ relay[i].inserted = <<>>

\* the payloads of C5: no choices, no first choice, no message, and a
\* completion text that is missing, empty or only whitespace
UnusablePayloads ==
  {NoChoices, EmptyChoices, NoMessage, NoContent, EmptyContent, BlankContent}

InvalidAiResponse(r) ==
  /\ r.pc = "done"
  /\ r.response.status = 502
  /\ r.response.error = <<"Invalid", "AI", "response">>
  /\ r.response.fields = {"error", "details"}
  /\ r.response.response = <<>>
  /\ r.inserted = <<>>
  /\ r.createdChat = NoChat

\* C5: when the provider answers with a success status and a payload without
\* usable completion text, the invocation ends there with 502 'Invalid AI
\* response', without a chat or message row and without a reply text.
C5_UnusablePayloadRejected ==
  [][\A i \in Invs, p \in UnusablePayloads :
       ReadBody(i, p) => InvalidAiResponse(relay'[i])]_vars

C5_Witness ==
  \E i \in Invs :
    /\ InvalidAiResponse(relay[i])
    /\ relay[i].response.details = ErrEmpty.message
    /\ RowsOf(i) = <<>>

NoReplyInBody(r) ==
  /\ r.pc = "done"
  /\ r.response.status # 200
  /\ r.response.fields \cap {"response", "chatId"} = {}
  /\ r.response.response = <<>>
  /\ r.response.chatId = NoChat

\* C6: when the write of the 'user' message or of the 'assistant' message
\* fails, the invocation returns a failure response whose body holds neither
\* the reply text nor a chat id.
C6_WriteFailureHidesReply ==
  [][\A i \in Invs :
       ((InsertUserDone(i) \/ InsertAssistantDone(i))
          /\ relay[i].storeState = "error") => NoReplyInBody(relay'[i])]_vars

C6_Witness ==
  \E i \in Invs :
    /\ NoReplyInBody(relay[i])
    /\ relay[i].response.details = ErrSaveAI.message
    /\ Roles(relay[i].inserted) = <<"user">>

\* C7 (as claimed): at the moment an invocation returns a success response,
\* the chat id in it is the id of a chat row in the store.
C7_ReturnedChatExists ==
  [][\A i \in Invs :
       (~Done(i) /\ Succeeded(i)')
         => \E c \in chats' : c.id = relay'[i].response.chatId]_vars

\* the failure class of a failure response, by the place that produced it
FailureClass(resp) ==
  IF resp = UnauthorizedResponse THEN "unauthenticated"
  ELSE IF resp.details = ErrApiKey.message THEN "configuration"
  ELSE IF resp.details = ErrAbort.message THEN "timeout"
  ELSE IF \E st \in ProviderStatuses : resp.details = ErrApi(st).message
    THEN "upstream unavailable"
  ELSE IF resp.details \in {ErrInvalidFormat.message, ErrEmpty.message}
    THEN "upstream invalid response"
  ELSE IF resp.details \in
            {ErrCreateChat.message, ErrSaveUser.message, ErrSaveAI.message}
    THEN "persistence"
  ELSE "other"

SixClasses ==
  {"unauthenticated", "configuration", "timeout", "upstream unavailable",
   "upstream invalid response", "persistence"}

\* C8 (as claimed): two failure responses of different classes among the six
\* never carry the same pair of status and error code.
C8_ClassesDistinct ==
  \A i, j \in Invs :
    (/\ Failed(i) /\ Failed(j)
     /\ FailureClass(relay[i].response) \in SixClasses
     /\ FailureClass(relay[j].response) \in SixClasses
     /\ FailureClass(relay[i].response) # FailureClass(relay[j].response))
    => <<relay[i].response.status, relay[i].response.error>>
         # <<relay[j].response.status, relay[j].response.error>>

\* C9 (as claimed): a failure response has a status among 401, 408, 500, 502
\* and a body { error, details }; a success response has a body
\* { response, chatId } with a non-empty response.
C9_ResponseShapes ==
  \A i \in Invs :
    /\ Failed(i) =>
         /\ relay[i].response.status \in {401, 408, 500, 502}
         /\ relay[i].response.fields = {"error", "details"}
    /\ Succeeded(i) =>
         /\ relay[i].response.fields = {"response", "chatId"}
         /\ relay[i].response.response # <<>>

ConfigurationFailure(r) ==
  /\ r.pc = "done"
  /\ r.response.status = 500
  /\ r.providerCalls = 0
  /\ r.inserted = <<>>
  /\ r.createdChat = NoChat

\* C10: when the provider's API key is not configured, an authenticated
\* invocation whose body parses ends with status 500, has sent nothing to the
\* provider and has written no chat or message row.
C10_MissingKeyIsConfigurationError ==
  [][\A i \in Invs, b \in Bodies :
       (ParseBody(i, b) /\ b.json /\ ~aimlApiKey)
         => ConfigurationFailure(relay'[i])]_vars

C10_Witness ==
  \E i \in Invs :
    /\ ConfigurationFailure(relay[i])
    /\ relay[i].user \in Users
    /\ relay[i].response.details = ErrApiKey.message

TitleDone == pure.fn = "title" /\ pure.stage = "done"
\* the turn is the first of a new conversation with a first message of more
\* than 50 characters; the turn the client sends holds that message alone
LongFirstTurn ==
  /\ pure.msgs # <<>>
  /\ Len(pure.msgs[1].content) > TitleLen
  /\ pure.client => Len(pure.msgs) = 1

\* C11: when the first user message of a new conversation is longer than 50
\* characters, the title of the chat the relay creates is the first 50
\* characters of that message followed by '...', both when the client
\* proposes the title and when the relay derives it.
C11_LongFirstMessageTitle ==
  (TitleDone /\ LongFirstTurn)
    => pure.text = SubSeq(pure.msgs[1].content, 1, TitleLen) \o Ellipsis

C11_Witness ==
  /\ TitleDone /\ LongFirstTurn /\ pure.client
  /\ Len(pure.text) = TitleLen + 3
  /\ pure.text = pure.title

\* C12 (as claimed): a title the relay derives is taken from the newest
\* message of the list: its first 50 characters, followed by '...' only when
\* the message is longer than 50 characters.
C12_DerivedFromNewest ==
  (TitleDone /\ ~pure.client /\ pure.msgs # <<>>)
    => LET newest == pure.msgs[Len(pure.msgs)].content
       IN pure.text = SubSeq(newest, 1, Min(TitleLen, Len(newest)))
                      \o (IF Len(newest) > TitleLen THEN Ellipsis ELSE <<>>)

DateDone == pure.fn = "formatDate" /\ pure.stage = "done"
\* d: the smallest whole number of days that covers the distance of the
\* timestamp from now
DayDifference ==
  CHOOSE d \in 0..(MaxDays + 2) :
    /\ d * DayMs >= Abs(pure.now - pure.date)
    /\ d > 0 => (d - 1) * DayMs < Abs(pure.now - pure.date)

\* the four forms of C19, each with the day differences it is claimed for
FourForms(d) ==
  IF d = 1 THEN {Rendered("Today", 0, NoDate)}
  ELSE IF d = 2 THEN {Rendered("Yesterday", 0, NoDate)}
  ELSE IF 3 <= d /\ d <= 7 THEN {Rendered("days ago", d, NoDate)}
  ELSE IF d > 7 THEN {Rendered("toLocaleDateString", 0, pure.date)}
  ELSE {}

\* C19 (as claimed): with d the day difference, d = 1 is rendered 'Today',
\* d = 2 'Yesterday', 3 <= d <= 7 'd days ago' and d > 7 as the localized
\* date, and every timestamp falls under one of these four cases.
C19_FourForms == DateDone => pure.rendered \in FourForms(DayDifference)

\* C19 (amended): as claimed for d >= 1; a timestamp equal to now has d = 0
\* and is rendered '0 days ago'.
C19_FormsWithZero ==
  DateDone =>
    IF DayDifference = 0
      THEN pure.rendered = Rendered("days ago", 0, NoDate)
      ELSE pure.rendered \in FourForms(DayDifference)

C19_Witness ==
  /\ DateDone
  /\ pure.date = pure.now
  /\ pure.rendered.label = "days ago"

\* invocation i ends with this step
Ends(i) == ~Done(i) /\ Done(i)'
\* invocation i holds a valid provider reply and a request without chat id
ValidReplyNoChatId(i) ==
  /\ relay[i].body.json /\ relay[i].body.chatId = NoChat
  /\ relay[i].aiResponse # <<>>

\* a chat row is created only by an invocation that was sent no chat id and
\* holds a valid reply; the row belongs to the caller
ChatCreatedOnlyIf ==
  \A c \in chats' \ chats :
    \E i \in Invs :
      /\ ValidReplyNoChatId(i)
      /\ Len(Trim(relay[i].aiResponse)) > 0
      /\ relay[i].user \in Users /\ c.user_id = relay[i].user
      /\ relay[i].createdChat = NoChat /\ relay'[i].createdChat = c.id

\* with a chat id supplied no chat row is created and a success returns the
\* supplied id; without one a success returns the id of the created row; the
\* two message rows of a success carry the returned id
ReturnedChatId(i) ==
  LET supplied == relay[i].body.chatId
      r == relay'[i]
  IN /\ supplied # NoChat =>
          /\ r.createdChat = NoChat
          /\ r.response.status = 200 => r.response.chatId = supplied
     /\ (supplied = NoChat /\ r.response.status = 200) =>
          /\ r.createdChat # NoChat
          /\ r.response.chatId = r.createdChat
     /\ r.response.status = 200 =>
          /\ Len(r.inserted) = 2
          /\ ChatsOf(r.inserted) = {r.response.chatId}

\* C13 (as claimed): a chat row, owned by the caller, is created if and only
\* if no chat id was supplied and the provider reply was valid; the returned
\* chat id is the supplied one or else that of the created row, and both
\* message rows carry it.
C13_ChatCreatedIff ==
  [][/\ ChatCreatedOnlyIf
     /\ \A i \in Invs :
          (Ends(i) /\ relay[i].body.json) =>
            /\ ValidReplyNoChatId(i) => relay'[i].createdChat # NoChat
            /\ ReturnedChatId(i)]_vars

\* C13 (amended): as claimed, except that a chat row is created if and only
\* if no chat id was supplied, the provider reply was valid and the store
\* accepted the insert of the chat.
C13_ChatCreatedIffStored ==
  [][/\ ChatCreatedOnlyIf
     /\ \A i \in Invs :
          (Ends(i) /\ relay[i].body.json) =>
            /\ (ValidReplyNoChatId(i)
                  /\ ~(relay[i].pc = "insertChat" /\ relay[i].storeState = "error"))
                 => relay'[i].createdChat # NoChat
            /\ ReturnedChatId(i)]_vars

C13_Witness ==
  \E i, j \in Invs :
    /\ Succeeded(i) /\ relay[i].createdChat # NoChat
    /\ relay[i].response.chatId = relay[i].createdChat
    /\ Succeeded(j) /\ relay[j].createdChat = NoChat
    /\ ChatsOf(relay[j].inserted) = {relay[j].response.chatId}

ErrorToasts == {ToastTimeout, ToastInvalid, ToastFailed}

\* the awaited submit fails with this step: the 30 s timer, a transport
\* error, a failure status of the relay, or a reply without response
SubmitFails ==
  \/ SubmitTimeout
  \/ SubmitTransportError
  \/ /\ SubmitSettled
     /\ \/ relay[submit.inv].response.status # 200
        \/ relay[submit.inv].response.response = <<>>

\* C14 (as claimed): when a submit fails, an error toast is shown and only
\* the user turn it added leaves the transcript: the transcript is again that
\* of the moment before the submit or, when it has been replaced since, it
\* stays as it is.
C14_FailedSubmitRestores ==
  [][SubmitFails =>
       /\ submitToast' \in ErrorToasts
       /\ IF transcript = Append(submit.before, Msg("user", TurnText(submit.inv)))
            THEN transcript' = submit.before
            ELSE transcript' = transcript]_vars

\* C15 (as claimed): in the transcript every assistant turn directly follows
\* a user turn.
C15_AssistantFollowsUser ==
  \A k \in 1..Len(transcript) :
    transcript[k].role = "assistant" =>
      k > 1 /\ transcript[k - 1].role = "user"

\* C16 (as claimed): when a submit completes while no deletion and no load
\* of messages is under way, every user turn that remains in the transcript
\* is the content of a 'user' row of table messages.
C16_UserTurnsRecorded ==
  [][((SubmitFails \/ SubmitSettled) /\ pendingDeletes = {} /\ loads = {}) =>
       \A k \in 1..Len(transcript') :
         transcript'[k].role = "user" =>
           \E m \in 1..Len(messages') :
             /\ messages'[m].role = "user"
             /\ messages'[m].content = transcript'[k].content]_vars

NotListedNext(chat) == \A k \in 1..Len(sidebarChats') : sidebarChats'[k] # chat

\* C17: when the deletion of a chat completes, the chat leaves the sidebar
\* list; if it was the open chat when its deletion was asked for, no chat is
\* selected and the transcript is empty afterwards, and otherwise the
\* selected chat and the transcript are as before.
C17_DeleteEffects ==
  [][\A d \in pendingDeletes :
       DeleteChatDone(d) =>
         /\ NotListedNext(d.id)
         /\ IF d.selected = d.id
              THEN selectedChatId' = NoChat /\ transcript' = <<>>
              ELSE UNCHANGED <<selectedChatId, transcript>>]_vars

C17_Witness ==
  \E d \in pendingDeletes :
    /\ d.selected = d.id
    /\ selectedChatId = d.id
    /\ transcript # <<>>
    /\ \E e \in pendingDeletes : e.selected # e.id /\ e.selected = d.id

\* C18 (as claimed): when the deletion of a chat has completed, the chat is
\* neither in the sidebar list nor the selected chat.
C18_NoReferenceToDeleted ==
  [][\A d \in pendingDeletes :
       DeleteChatDone(d) => NotListedNext(d.id) /\ selectedChatId' # d.id]_vars

\* C20 (as claimed): while the relay runs the invocation of one call of the
\* chat interface, no other call of it has been started and is unfinished.
C20_OneOutstandingCall ==
  \A i, j \in Invs :
    (i # j /\ calls[i] # <<>> /\ Running(i)) => (calls[j] = <<>> \/ Done(j))

\* the one call sent so far is that of invocation 1, and its 30 s timer has
\* fired at the client: the toast of the timeout is the last one shown
FirstCallTimedOut ==
  /\ calls[1] # <<>>
  /\ \A j \in Invs : j > 1 => calls[j] = <<>>
  /\ submit = NoSubmit
  /\ submitToast = ToastTimeout

\* C21 (as claimed): once the 30 s timer of the client has fired for a relay
\* call, that call is cancelled: no row is added to table chats or to table
\* messages afterwards.
C21_TimedOutCallHasNoEffect ==
  [][FirstCallTimedOut =>
       /\ chats' \subseteq chats
       /\ Len(messages') <= Len(messages)]_vars

\* C22 (as claimed): a title the relay derives when no title is proposed and
\* the message list is empty or its first message has no content is
\* 'New Research Chat'.
C22_FallbackTitle ==
  (/\ TitleDone /\ ~pure.client
   /\ pure.title = <<>>
   /\ pure.msgs = <<>> \/ pure.msgs[1].content = <<>>)
    => pure.text = FallbackTitle

\* C25 (as claimed): an invocation that has ended with a failure response
\* leaves no chat row of its own making in table chats.
C25_FailureLeavesNoChat ==
  \A i \in Invs : Failed(i) => ~ChatExists(relay[i].createdChat)

\* the invocation is past req.json() with a body whose message list is empty
EmptyListAccepted(i) ==
  /\ Running(i)
  /\ relay[i].body.json
  /\ relay[i].body.messages = <<>>

\* C26 (as claimed): an authenticated request with an empty message list
\* causes no call of the provider, no chat row and no message row.
C26_EmptyListNoEffect ==
  \A i \in Invs : EmptyListAccepted(i) =>
    /\ relay[i].providerCalls = 0
    /\ relay[i].createdChat = NoChat
    /\ relay[i].inserted = <<>>

\* the store executes the insert of the user message of invocation i
UserRowWritten(i) ==
  /\ relay[i].pc = "insertUser"
  /\ relay[i].storeState = "sent"
  /\ relay'[i].storeState = "ok"

\* C23: the row the relay writes for the user has role 'user' and the content
\* of the last element of the list the caller sent; with the chat interface
\* as the caller that is the turn just submitted; the system instruction is
\* the first element of the prompt sent to the provider and is in no row.
C23_UserRowIsLastElement ==
  [][\A i \in Invs : UserRowWritten(i) =>
       LET sent == relay[i].body.messages
           row == messages'[Len(messages')]
       IN /\ Len(messages') = Len(messages) + 1
          /\ row.role = "user"
          /\ row.content = sent[Len(sent)].content
          /\ row.content = TurnText(i)
          /\ relay[i].prompt[1] = SystemPrompt
          /\ SubSeq(relay[i].prompt, 2, Len(relay[i].prompt)) = sent
          /\ \A k \in 1..Len(messages') :
               /\ messages'[k].role # SystemPrompt.role
               /\ messages'[k].content # SystemPrompt.content]_vars

\* the second turn of a chat is stored: the list sent had three elements
C23_Witness ==
  /\ relay[2].pc = "insertAssistant"
  /\ Len(relay[2].body.messages) = 3
  /\ messages[Len(messages)].inv = 2
  /\ messages[Len(messages)].role = "user"

\* the order of the steps of the handler
Rank(pc) ==
  CASE pc = "idle" -> 0
    [] pc = "getUser" -> 1
    [] pc = "parseBody" -> 2
    [] pc = "fetch" -> 3
    [] pc \in {"errorText", "readBody"} -> 4
    [] pc = "insertChat" -> 5
    [] pc = "insertUser" -> 6
    [] pc = "insertAssistant" -> 7
    [] pc = "done" -> 8

\* an invocation calls the provider at most once, only moves forward, and
\* issues a store write only on reaching the step of that write; what it has
\* returned stays
OneAttemptEach(i) ==
  /\ relay'[i].providerCalls <= 1
  /\ relay'[i].pc # relay[i].pc => Rank(relay'[i].pc) > Rank(relay[i].pc)
  /\ (relay'[i].storeState = "sent" /\ relay[i].storeState # "sent")
       => relay'[i].pc # relay[i].pc
  /\ Done(i) => relay'[i] = relay[i]

\* requests are sent only by a submit that is accepted, one request each, and
\* an invocation runs only for a request that was sent
OneCallPerSubmit ==
  /\ calls' # calls =>
       /\ ~isLoading /\ isLoading'
       /\ \E i \in Invs :
            /\ calls[i] = <<>>
            /\ Len(calls'[i]) = 1
            /\ submit'.inv = i
            /\ \A j \in Invs \ {i} : calls'[j] = calls[j]
  /\ \A i \in Invs : relay'[i].pc # "idle" => calls'[i] # <<>>

\* a failed submit shows one error toast and is over: it sends nothing again
\* and cannot fail again; no other step shows an error toast
OneToastPerFailure ==
  /\ SubmitFails =>
       /\ submitToast' \in ErrorToasts
       /\ submit' = NoSubmit
       /\ calls' = calls
  /\ submitToast' # submitToast => SubmitFails \/ submitToast' = NoToast

\* C24: nothing is retried: a submit sends at most one request, an invocation
\* calls the provider at most once and attempts each store write at most
\* once, a failed invocation returns one error response and a failed submit
\* shows one error toast.
C24_NoRetry ==
  [][/\ \A i \in Invs : OneAttemptEach(i)
     /\ OneCallPerSubmit
     /\ OneToastPerFailure]_vars

\* the first invocation has failed after it created its chat, and the submit
\* that sent it has shown its toast
C24_Witness ==
  /\ Failed(1)
  /\ relay[1].providerCalls = 1
  /\ relay[1].createdChat # NoChat
  /\ calls[1] # <<>> /\ calls[2] = <<>>
  /\ submit = NoSubmit
  /\ submitToast = ToastFailed

\* the last load under way settles with the rows its chat has in the store
LastLoadSettles(l) ==
  /\ LoadDone(l)
  /\ loads' = {}
  /\ l.state = "ok"
  /\ l.rows = LoadedMessages(l.chat)

\* C27 (as claimed): when the last load under way has settled and a chat is
\* selected, the transcript is the list of the stored messages of that chat.
C27_LateLoadNeverOverwrites ==
  [][\A l \in loads :
       (LastLoadSettles(l) /\ selectedChatId # NoChat) =>
         transcript' = LoadedMessages(selectedChatId)]_vars

\* nothing is under way: no submit is awaited, every request sent has been
\* answered, no load and no deletion is pending; and a chat is selected
AtRest ==
  /\ submit = NoSubmit
  /\ \A i \in Invs : ~Running(i) /\ (calls[i] # <<>> => Done(i))
  /\ loads = {}
  /\ pendingDeletes = {}
  /\ selectedChatId # NoChat

\* C28 (as claimed): at rest the roles and contents of the transcript are
\* those of the stored messages of the selected chat, in creation order.
C28_TranscriptIsStoredAtRest ==
  AtRest => transcript = LoadedMessages(selectedChatId)

\* the 30 s timer of a submit fires unless the submit has ended before:
\* setTimeout runs its callback once the delay has passed
SpecClientFair == SpecClient /\ WF_vars(SubmitTimeout)

\* the loading flag a submit sets is cleared in the end
LoadingEventuallyCleared == isLoading ~> ~isLoading

\* the flag is set exactly while a submit is awaited
LoadingWhileAwaited == isLoading <=> submit # NoSubmit

\* the awaited submit ends with this step: the assistant turn is appended
AssistantAppended ==
  /\ SubmitSettled
  /\ transcript' =
       Append(transcript, Msg("assistant", relay[submit.inv].response.response))
  /\ relay[submit.inv].response.response # <<>>
  /\ submitToast' = submitToast

\* the awaited submit ends with this step: the user turn it added leaves the
\* transcript and an error toast is shown
UserTurnRolledBack ==
  /\ SubmitFails
  /\ transcript # <<>>
  /\ transcript[Len(transcript)] = Msg("user", TurnText(submit.inv))
  /\ transcript' = DropLast(transcript)
  /\ submitToast' \in ErrorToasts

\* C29 (as claimed): the step that ends an awaited submit clears the loading
\* flag and either appends the assistant turn or rolls back the user turn
\* with an error shown, never both and never neither.
C29_SubmitEndsInOneOutcome ==
  [][(SubmitFails \/ SubmitSettled) =>
       /\ ~isLoading'
       /\ AssistantAppended \/ UserTurnRolledBack
       /\ ~(AssistantAppended /\ UserTurnRolledBack)]_vars

=============================================================================
